---- MODULE Spec2Model ----
(***************************************************************************)
(* The two animated-background components of vue-lava-lamp:                *)
(*   canvas_html.vue   the 2d-canvas renderer  (renderer = "html")         *)
(*   canvas_webgl.vue  the WebGL renderer      (renderer = "webgl")        *)
(* One component instance is modelled: its mount, the window's resize and  *)
(* mousemove events, the animation frames and its unmount.                 *)
(*                                                                         *)
(* Numbers.  The code computes in JavaScript numbers; the model computes   *)
(* exactly, in fixed point: a coordinate, a radius or a velocity is an     *)
(* integer count of 1/Scale pixel.  Scale is chosen so that every product  *)
(* and quotient the code forms within MaxTicks simulation steps is an      *)
(* integer (ExactArithmetic checks it), so \div never rounds.              *)
(***************************************************************************)
EXTENDS Integers, Sequences, FiniteSets

VARIABLES
  renderer,         \* which component this instance is: "html" or "webgl"
  winW, winH,       \* window.innerWidth, window.innerHeight (pixels)
  mounted,          \* the onMounted callback has run
  unmounted,        \* the component has been unmounted
  gl,               \* canvas.getContext(..): "unset", "ok" or "null"
  width, height,    \* let width, height (pixels)
  mouse,            \* let mouse = {x, y} (1/Scale pixel)
  circles,          \* let circles = [] (sequence of circle records)
  resizeListener,   \* window has the "resize" listener resizeCanvas
  mouseListener,    \* window has the "mousemove" listener onMouseMove
  unmountHook,      \* onUnmounted(..) has registered the teardown
  frames,           \* ids of the requestAnimationFrame callbacks pending
  nextFrameId,      \* the id the next requestAnimationFrame returns
  animationFrameId, \* let animationFrameId (html only; 0 is undefined)
  program,          \* the GL program: "none", "linked" or "unlinked"
  programUsed,      \* gl.useProgram(program) has been called
  drawn,            \* gl.drawArrays / ctx.drawImage has been called
  errors,           \* the console.error calls, in order
  ticks,            \* simulation steps run so far
  lastOp,           \* the last event the component saw: "none", "mount", ...
  lastPointer,      \* << p >> for the last pointer position p a listener
                    \* was given, << >> before the first
  burst,            \* pointer moves delivered back to back (2: two or more):
                    \* those ending with the last event, or, after a frame,
                    \* those right before it
  darkMode,         \* $q.dark.isActive
  painted,          \* what the last frame rendered, and how (see Blank)
  faults,           \* the callbacks that ended in an uncaught TypeError
  fragment          \* one run of the fragment shader: the circles and the
                    \* sample point it is given, the values exp() takes, and
                    \* << >> or << its result >>

vars == <<renderer, winW, winH, mounted, unmounted, gl, width, height, mouse,
          circles, resizeListener, mouseListener, unmountHook, frames,
          nextFrameId, animationFrameId, program, programUsed, drawn, errors,
          ticks, lastOp, lastPointer, burst, darkMode, painted, faults,
          fragment>>

----------------------------------------------------------------------------
(* Bounds of the model *)

\* simulation steps a behaviour may run (the first one runs inside onMounted)
MaxTicks == 3

\* the window sizes a behaviour may see, <<innerWidth, innerHeight>>
WindowSizes == {<<2, 3>>, <<6, 4>>}

\* the pointer positions a mousemove may deliver, <<clientX, clientY>>
PointerPositions == {<<0, 0>>, <<4, 1>>}

RECURSIVE Pow10(_)
Pow10(n) == IF n = 0 THEN 1 ELSE 10 * Pow10(n - 1)

\* units per pixel: quarters (the random draws), tenths (the radii), and one
\* more factor 10 for each pointer-follow step
Scale == 4 * Pow10(MaxTicks + 1)

Px(n) == n * Scale

\* The draws of one ambient circle: the five Math.random() calls of one loop
\* iteration, in call order (x, y, speedMultiplier, velocity x, velocity y).
\* A draw k stands for Math.random() = k/4, so k is in 0 .. 3.
DrawFarFast == [x |-> 3, y |-> 3, s |-> 3, vx |-> 3, vy |-> 3]
DrawNearFast == [x |-> 0, y |-> 0, s |-> 3, vx |-> 0, vy |-> 0]
DrawSlow == [x |-> 2, y |-> 1, s |-> 0, vx |-> 1, vy |-> 3]

----------------------------------------------------------------------------
(* The scene *)

\* for (let i = 0; i < 5; i++)
NumAmbient == 5

\* html init(): const colors = [...] ("r, g, b" strings, here triples)
colors ==
  << <<18, 113, 255>>, <<221, 74, 255>>, <<100, 220, 255>>,
     <<200, 50, 50>>, <<180, 180, 50>>, <<140, 100, 255>> >>

\* webgl: const circleColors = [...]; each channel is n / 255, here n
circleColors ==
  << <<18, 113, 255>>, <<221, 74, 255>>, <<100, 220, 255>>,
     <<200, 50, 50>>, <<180, 180, 50>>, <<140, 100, 255>> >>

\* new Circle(x, y, radius, color, velocity, isInteractive) /
\* {x, y, radius, color, vx, vy, interactive}
Circle(x, y, radius, color, vx, vy, interactive) ==
  [x |-> x, y |-> y, radius |-> radius, color |-> color,
   vx |-> vx, vy |-> vy, interactive |-> interactive]

\* AmbientCircle taking its colour one slot too far, colors[i + 1]
AmbientCircle_nextColor(palette, i, u, w, h) ==
  LET radius == Px(w + h) \div 5
      x == (u.x * Px(w)) \div 4
      y == (u.y * Px(h)) \div 4
      speedMultiplier == (u.s * Px(4)) \div 4 + Px(1)
      vx == ((u.vx - 2) * speedMultiplier) \div 4
      vy == ((u.vy - 2) * speedMultiplier) \div 4
  IN  Circle(x, y, radius, palette[i + 1], vx, vy, FALSE)

\* one ambient circle from its five draws, palette taken at slot i
AmbientCircle(palette, i, u, w, h) ==
  LET radius == Px(w + h) \div 5                       \* (width+height)*0.2
      x == (u.x * Px(w)) \div 4                        \* random()*width
      y == (u.y * Px(h)) \div 4                        \* random()*height
      speedMultiplier == (u.s * Px(4)) \div 4 + Px(1)  \* random()*4+1
      vx == ((u.vx - 2) * speedMultiplier) \div 4      \* (random()-0.5)*sm
      vy == ((u.vy - 2) * speedMultiplier) \div 4
  IN  Circle(x, y, radius, palette[i], vx, vy, FALSE)

\* the interactive circle, centred, radius (width+height)*0.1
InteractiveCircle(palette, w, h) ==
  Circle(Px(w) \div 2, Px(h) \div 2, Px(w + h) \div 10,
         palette[NumAmbient + 1], 0, 0, TRUE)

\* init() without its first statement, circles = []: the new circles are
\* pushed behind the old ones
init_noReset(rnd, w, h) ==
  circles
    \o [i \in 1 .. NumAmbient |-> AmbientCircle(colors, i, rnd[i], w, h)]
    \o << InteractiveCircle(colors, w, h) >>

\* html: function init(), for the draws rnd (one per loop iteration)
init(rnd, w, h) ==
  [i \in 1 .. NumAmbient |-> AmbientCircle(colors, i, rnd[i], w, h)]
    \o << InteractiveCircle(colors, w, h) >>

\* webgl: function initCircles()
initCircles(rnd, w, h) ==
  [i \in 1 .. NumAmbient |-> AmbientCircle(circleColors, i, rnd[i], w, h)]
    \o << InteractiveCircle(circleColors, w, h) >>

----------------------------------------------------------------------------
(* The simulation step *)

\* boundaryDetection without its second test: a circle that leaves through
\* the low edge is never brought back
boundaryDetection_highOnly(p, radius, limit) ==
  IF p - radius > limit THEN -radius ELSE p

\* html: one axis of the boundary detection of Circle.update(); p is the
\* coordinate after the velocity was added, limit is width or height
\*   if (p - radius > limit) p = -radius;
\*   if (p + radius < 0)     p = limit + radius;
boundaryDetection(p, radius, limit) ==
  LET p1 == IF p - radius > limit THEN -radius ELSE p
  IN  IF p1 + radius < 0 THEN limit + radius ELSE p1

\* Circle.update() that also turns the circle round
update_turning(c, w, h) ==
  [c EXCEPT !.x = boundaryDetection(c.x + c.vx, c.radius, Px(w)),
            !.y = boundaryDetection(c.y + c.vy, c.radius, Px(h)),
            !.vx = -c.vx, !.vy = -c.vy]

\* html: Circle.update(), with the width and height it reads
update(c, w, h) ==
  [c EXCEPT !.x = boundaryDetection(c.x + c.vx, c.radius, Px(w)),
            !.y = boundaryDetection(c.y + c.vy, c.radius, Px(h))]

\* followMouse with the difference taken the wrong way round
followMouse_away(p, m) == p + (p - m) \div 10

\* html: one axis of the interactive branch of animate():
\*   circle.x += (mouse.x - circle.x) * 0.1
followMouse(p, m) == p + (m - p) \div 10

\* animateCircles following the pointer value of scene creation, the centre,
\* rather than the mouse it is given
animateCircles_snapshot(cs, m, w, h) ==
  [i \in DOMAIN cs |->
     IF cs[i].interactive
       THEN [cs[i] EXCEPT !.x = followMouse(cs[i].x, Px(w) \div 2),
                          !.y = followMouse(cs[i].y, Px(h) \div 2)]
       ELSE update(cs[i], w, h)]

\* html: the circles.forEach(..) of animate(): the interactive circle follows
\* the mouse, every other circle is updated
animateCircles(cs, m, w, h) ==
  [i \in DOMAIN cs |->
     IF cs[i].interactive
       THEN [cs[i] EXCEPT !.x = followMouse(cs[i].x, m.x),
                          !.y = followMouse(cs[i].y, m.y)]
       ELSE update(cs[i], w, h)]

\* webgl: one axis of "wrap around screen" in updateCircles()
\*   if (c.x - c.radius > width) c.x = -c.radius;
\*   if (c.x + c.radius < 0)     c.x = width + c.radius;
wrapAround(p, radius, limit) ==
  LET p1 == IF p - radius > limit THEN -radius ELSE p
  IN  IF p1 + radius < 0 THEN limit + radius ELSE p1

\* followsMouse with a factor of 2 instead of 0.1
followsMouse_overshoot(p, m) == p + (m - p) * 2

\* webgl: one axis of "interactive circle follows mouse" in updateCircles()
\*   c.x += (mouse.x - c.x) * 0.1
followsMouse(p, m) == p + (m - p) \div 10

\* webgl: function updateCircles()
updateCircles(cs, m, w, h) ==
  [i \in DOMAIN cs |->
     IF ~cs[i].interactive
       THEN [cs[i] EXCEPT !.x = wrapAround(cs[i].x + cs[i].vx, cs[i].radius, Px(w)),
                          !.y = wrapAround(cs[i].y + cs[i].vy, cs[i].radius, Px(h))]
       ELSE [cs[i] EXCEPT !.x = followsMouse(cs[i].x, m.x),
                          !.y = followsMouse(cs[i].y, m.y)]]

----------------------------------------------------------------------------
(* Rendering *)

\* A canvas nothing was rendered to, with the context state of a new canvas.
\*   blur          html: the px of offCtx.filter = "blur(..px)"; 0: no filter
\*   blend         html: ctx.globalCompositeOperation at ctx.drawImage
\*   ctxComposite  html: ctx.globalCompositeOperation when the frame ends
\*   u_darkMode    webgl: the uniform u_darkMode; -1: never set
\*   u_circleCount webgl: the uniform u_circleCount
\*   disks         the disks rendered, in order: html, one per circle.draw;
\*                 webgl, the slots of u_circlesPosRad and u_circlesColor
Blank ==
  [blur |-> 0, blend |-> "none", ctxComposite |-> "source-over",
   u_darkMode |-> -1, u_circleCount |-> 0, disks |-> << >>]

\* the disk of one circle: html Circle.draw(context); webgl the values
\* pushed to posRadArr and colorsArr for one circle
Disk(c) == [x |-> c.x, y |-> c.y, radius |-> c.radius, color |-> c.color]

\* the forEach of animate() drawing each circle before it is moved
forEachCircle_drawFirst(cs, m, w, h) ==
  [circles |-> animateCircles(cs, m, w, h),
   disks |-> [i \in DOMAIN cs |-> Disk(cs[i])]]

\* html: circles.forEach(..) of animate(): each circle is moved, then drawn
forEachCircle(cs, m, w, h) ==
  [circles |-> animateCircles(cs, m, w, h),
   disks |-> [i \in DOMAIN cs |-> Disk(animateCircles(cs, m, w, h)[i])]]

\* animateFrame choosing the blend by the opposite test
animateFrame_blendSwapped(cs, m, w, h, dark) ==
  [blur |-> IF ~dark THEN 80 ELSE 40,
   blend |-> IF dark THEN "lighter" ELSE "hue",
   ctxComposite |-> "source-over",
   u_darkMode |-> -1,
   u_circleCount |-> 0,
   disks |-> forEachCircle(cs, m, w, h).disks]

\* html: what animate() renders of the circles cs when dark is
\* $q.dark.isActive: the blur, the blend of drawImage, and the composite
\* operation reset at the end
animateFrame(cs, m, w, h, dark) ==
  [blur |-> IF ~dark THEN 80 ELSE 40,
   blend |-> IF ~dark THEN "lighter" ELSE "hue",
   ctxComposite |-> "source-over",
   u_darkMode |-> -1,
   u_circleCount |-> 0,
   disks |-> forEachCircle(cs, m, w, h).disks]

\* the uniform arrays have 6 slots: uniform vec3 u_circlesColor[6]
NumSlots == 6

\* webgl: the dummy values of an unused slot
Dummy == [x |-> 0, y |-> 0, radius |-> 0, color |-> <<0, 0, 0>>]

\* webgl: the uniforms render() sets for the circles cs (already updated)
\* when dark is $q.dark.isActive
renderFrame(cs, dark) ==
  [blur |-> 0, blend |-> "none", ctxComposite |-> "source-over",
   u_darkMode |-> IF dark THEN 1 ELSE 0,
   u_circleCount |-> Len(cs),
   disks |-> [i \in 1 .. NumSlots |->
                IF i <= Len(cs) THEN Disk(cs[i]) ELSE Dummy]]

\* canvas.width = ..: the bitmap is cleared; the 2d context state is reset,
\* the uniforms of the GL program stay
Cleared(p) ==
  [Blank EXCEPT !.u_darkMode = p.u_darkMode,
                !.u_circleCount = p.u_circleCount]

\* canvas.value: the template ref is the element while the component is
\* mounted and null after it is unmounted
canvasValue == IF mounted /\ ~unmounted THEN "element" ELSE "null"

----------------------------------------------------------------------------
(* The fragment shader, per sample point. Colours are kept as n for n / 255;
   exp() takes values in units of 1 / ExpOne; a quotient is kept as its
   numerator and denominator. *)

\* the value 1.0 of exp(), in units
ExpOne == 2

\* float dist = length(st - cPos); ... dist * dist
distSquared(st, disk) ==
  (st[1] - disk.x) * (st[1] - disk.x) + (st[2] - disk.y) * (st[2] - disk.y)

\* float sigma = radius * 0.5;
\* float val = exp(- (dist * dist) / (2.0 * sigma * sigma));
\* e.exp gives exp() of the quotients that are neither 0 nor undefined, by
\* <<dist * dist, radius>>; with radius 0 the quotient is a division by zero,
\* whose result GLSL leaves undefined: e.div0 is the value that comes out
gaussian(e, dist2, radius) ==
  IF radius = 0 THEN e.div0
  ELSE IF dist2 = 0 THEN ExpOne
  ELSE e.exp[<<dist2, radius>>]

\* the loop running through all 6 slots
loopContinues_noBreak(i, u_circleCount) == TRUE

\* if (i >= u_circleCount) { break; }
loopContinues(i, u_circleCount) == ~(i >= u_circleCount)

\* the body of the loop for slot i (from 0): fieldSum += val;
\* weightedColorSum += u_circlesColor[i] * val
accumulate(u, st, e, i, acc) ==
  LET disk == u.disks[i + 1]
      val == gaussian(e, distSquared(st, disk), disk.radius)
  IN  [fieldSum |-> acc.fieldSum + val,
       weightedColorSum |->
         [k \in 1 .. 3 |-> acc.weightedColorSum[k] + disk.color[k] * val],
       evaluated |-> acc.evaluated \cup {i}]

RECURSIVE fieldLoop(_, _, _, _, _)
\* for (int i = 0; i < 6; i++) { ... }, from slot i on
fieldLoop(u, st, e, i, acc) ==
  IF i < NumSlots /\ loopContinues(i, u.u_circleCount)
    THEN fieldLoop(u, st, e, i + 1, accumulate(u, st, e, i, acc))
    ELSE acc

\* resolveColor without the division by fieldSum
resolveColor_unnormalised(fieldSum, weightedColorSum) ==
  [num |-> weightedColorSum, den |-> ExpOne]

\* vec3 finalCirclesColor = vec3(0.0);
\* if (fieldSum > 0.0) { finalCirclesColor = weightedColorSum / fieldSum; }
resolveColor(fieldSum, weightedColorSum) ==
  IF fieldSum > 0
    THEN [num |-> weightedColorSum, den |-> fieldSum]
    ELSE [num |-> <<0, 0, 0>>, den |-> 1]

\* void main(void) at the sample point st, under the uniforms u set by
\* render(); gl_FragColor is kept as the arguments of its mix(), which is
\* the same call in the light and in the dark arm
main(u, st, e) ==
  LET acc == fieldLoop(u, st, e, 0,
               [fieldSum |-> 0, weightedColorSum |-> <<0, 0, 0>>,
                evaluated |-> {}])
      finalCirclesColor == resolveColor(acc.fieldSum, acc.weightedColorSum)
  IN  [fieldSum |-> acc.fieldSum,
       weightedColorSum |-> acc.weightedColorSum,
       evaluated |-> acc.evaluated,
       finalCirclesColor |-> finalCirclesColor,
       gl_FragColor |-> [bg |-> "bgColor", blob |-> finalCirclesColor,
                         intensity |-> acc.fieldSum]]

\* no shader run is looked at
NoFragment ==
  [circles |-> << >>, st |-> <<0, 0>>,
   e |-> [exp |-> << >>, div0 |-> 0], out |-> << >>]

----------------------------------------------------------------------------
(* Initial state: the component is set up, not yet mounted *)

Setup ==
  /\ renderer \in {"html", "webgl"}
  /\ \E sz \in WindowSizes : winW = sz[1] /\ winH = sz[2]
  /\ mounted = FALSE
  /\ unmounted = FALSE
  /\ gl = "unset"
  /\ width = 0
  /\ height = 0
  /\ mouse = [x |-> 0, y |-> 0]
  /\ circles = << >>
  /\ resizeListener = FALSE
  /\ mouseListener = FALSE
  /\ unmountHook = FALSE
  /\ frames = {}
  /\ nextFrameId = 1
  /\ animationFrameId = 0
  /\ program = "none"
  /\ programUsed = FALSE
  /\ drawn = FALSE
  /\ errors = << >>
  /\ ticks = 0
  /\ lastOp = "none"
  /\ lastPointer = << >>
  /\ burst = 0
  /\ darkMode \in BOOLEAN
  /\ painted = Blank
  /\ faults = {}

Init ==
  /\ Setup
  /\ fragment = NoFragment

\* the draws one init() / initCircles() call can make, one per ambient
\* circle: every circle meets every kind of draw, next to different ones
Draws ==
  { [i \in 1 .. NumAmbient |->
       IF i % 3 = 1 THEN DrawSlow ELSE IF i % 3 = 2 THEN DrawFarFast
                                                    ELSE DrawNearFast],
    [i \in 1 .. NumAmbient |->
       IF i % 3 = 1 THEN DrawNearFast ELSE IF i % 3 = 2 THEN DrawSlow
                                                        ELSE DrawFarFast],
    [i \in 1 .. NumAmbient |->
       IF i % 3 = 1 THEN DrawFarFast ELSE IF i % 3 = 2 THEN DrawNearFast
                                                       ELSE DrawSlow] }

\* let mouse = { x: width / 2, y: height / 2 }
Centre(w, h) == [x |-> Px(w) \div 2, y |-> Px(h) \div 2]

----------------------------------------------------------------------------
(* canvas_html.vue *)

\* requestAnimationFrame(cb): the callback is pending under a fresh id
RequestFrame(pending) == pending \cup {nextFrameId}

\* onMounted: sizes, listeners, init(), the first animate(), onUnmounted(..)
onMounted_html(rnd) ==
  /\ gl' = "ok"
  /\ width' = winW
  /\ height' = winH
  /\ resizeListener' = TRUE
  /\ mouse' = Centre(winW, winH)
  /\ mouseListener' = TRUE
  /\ circles' = forEachCircle(init(rnd, winW, winH), Centre(winW, winH),
                              winW, winH).circles
  /\ painted' = animateFrame(init(rnd, winW, winH), Centre(winW, winH),
                             winW, winH, darkMode)
  /\ drawn' = TRUE
  /\ frames' = RequestFrame(frames)
  /\ animationFrameId' = nextFrameId
  /\ nextFrameId' = nextFrameId + 1
  /\ ticks' = ticks + 1
  /\ unmountHook' = TRUE
  /\ UNCHANGED <<program, programUsed, errors, faults>>

\* resizeCanvas without its call of init(): the scene is kept
resizeCanvas_html_noInit(rnd, w, h) ==
  /\ width' = w
  /\ height' = h
  /\ circles' = circles

\* function resizeCanvas(): new size, then init() re-rolls the scene
resizeCanvas_html(rnd, w, h) ==
  /\ width' = w
  /\ height' = h
  /\ circles' = init(rnd, w, h)

\* animate() requesting a second frame callback
animate_twice(id) ==
  /\ circles' = forEachCircle(circles, mouse, width, height).circles
  /\ painted' = animateFrame(circles, mouse, width, height, darkMode)
  /\ drawn' = TRUE
  /\ frames' = (frames \ {id}) \cup {nextFrameId, nextFrameId + 1}
  /\ animationFrameId' = nextFrameId + 1
  /\ nextFrameId' = nextFrameId + 2
  /\ ticks' = ticks + 1
  /\ UNCHANGED <<width, height, mouse, resizeListener, mouseListener,
                 program, programUsed, errors>>

\* function animate(), run as the frame callback id
animate(id) ==
  /\ circles' = forEachCircle(circles, mouse, width, height).circles
  /\ painted' = animateFrame(circles, mouse, width, height, darkMode)
  /\ drawn' = TRUE
  /\ frames' = RequestFrame(frames \ {id})
  /\ animationFrameId' = nextFrameId
  /\ nextFrameId' = nextFrameId + 1
  /\ ticks' = ticks + 1
  /\ UNCHANGED <<width, height, mouse, resizeListener, mouseListener,
                 program, programUsed, errors>>

\* onUnmounted: both listeners removed, the pending frame cancelled
onUnmounted_html ==
  /\ resizeListener' = FALSE
  /\ mouseListener' = FALSE
  /\ frames' = frames \ {animationFrameId}

----------------------------------------------------------------------------
(* canvas_webgl.vue *)

\* function render(), on the circles cs: updateCircles(), the draw call and
\* requestAnimationFrame(render), whose id is dropped
render(cs, m, w, h, pending) ==
  /\ circles' = updateCircles(cs, m, w, h)
  /\ painted' = renderFrame(updateCircles(cs, m, w, h), darkMode)
  /\ programUsed' = TRUE
  /\ drawn' = TRUE
  /\ frames' = RequestFrame(pending)
  /\ nextFrameId' = nextFrameId + 1
  /\ ticks' = ticks + 1

\* onMounted after the context was obtained: sizes, listeners, initCircles(),
\* the shaders and the program, the first render(), onUnmounted(..).
\* vertOK, fragOK: the shader compiles; linkOK: the linker accepts two
\* compiled shaders; nullThrows: gl.attachShader(program, null) throws a
\* TypeError (the IDL's non-nullable argument) rather than recording a GL
\* error and returning.
startWebgl(errs, rnd, vertOK, fragOK, linkOK, nullThrows) ==
  LET compileErrs == (IF vertOK THEN << >> ELSE << "Shader compile error:" >>)
                     \o (IF fragOK THEN << >> ELSE << "Shader compile error:" >>)
      linked == vertOK /\ fragOK /\ linkOK
      linkErrs == IF linked THEN << >> ELSE << "Program link error:" >>
  IN  /\ width' = winW
      /\ height' = winH
      /\ resizeListener' = TRUE
      /\ mouse' = Centre(winW, winH)
      /\ mouseListener' = TRUE
      /\ animationFrameId' = animationFrameId
      /\ IF ~(vertOK /\ fragOK) /\ nullThrows
           THEN \* attachShader throws: the rest of onMounted never runs
                /\ circles' = initCircles(rnd, winW, winH)
                /\ errors' = errs \o compileErrs
                /\ program' = "unlinked"
                /\ faults' = faults \cup {"onMounted"}
                /\ UNCHANGED <<programUsed, drawn, frames, nextFrameId, ticks,
                               unmountHook, painted>>
           ELSE /\ errors' = errs \o compileErrs \o linkErrs
                /\ program' = IF linked THEN "linked" ELSE "unlinked"
                /\ render(initCircles(rnd, winW, winH), Centre(winW, winH),
                          winW, winH, frames)
                /\ unmountHook' = TRUE
                /\ faults' = faults

\* onMounted without the return after "WebGL not supported"
onMounted_webgl_noReturn(glOK, rnd, vertOK, fragOK, linkOK, nullThrows) ==
  /\ gl' = IF glOK THEN "ok" ELSE "null"
  /\ startWebgl(IF glOK THEN errors
                        ELSE Append(errors, "WebGL not supported"),
                rnd, vertOK, fragOK, linkOK, nullThrows)

\* onMounted: without a WebGL context, log and return
onMounted_webgl(glOK, rnd, vertOK, fragOK, linkOK, nullThrows) ==
  /\ gl' = IF glOK THEN "ok" ELSE "null"
  /\ IF ~glOK
       THEN /\ errors' = Append(errors, "WebGL not supported")
            /\ UNCHANGED <<width, height, mouse, circles, resizeListener,
                           mouseListener, unmountHook, frames, nextFrameId,
                           animationFrameId, program, programUsed, drawn,
                           ticks, painted, faults>>
       ELSE startWebgl(errors, rnd, vertOK, fragOK, linkOK, nullThrows)

\* resizeCanvas() that also fits the radii to the new size
resizeCanvas_webgl_rescale(w, h) ==
  /\ width' = w
  /\ height' = h
  /\ circles' = [i \in DOMAIN circles |->
                   [circles[i] EXCEPT !.radius = Px(w + h) \div 5]]

\* function resizeCanvas(): new size and gl.viewport; the scene is kept
resizeCanvas_webgl(w, h) ==
  /\ width' = w
  /\ height' = h
  /\ circles' = circles

\* onUnmounted: both listeners removed; no frame is cancelled
onUnmounted_webgl ==
  /\ resizeListener' = FALSE
  /\ mouseListener' = FALSE
  /\ frames' = frames

----------------------------------------------------------------------------
(* The events *)

\* the component is mounted: Vue runs the onMounted callback
Mount ==
  /\ ~mounted
  /\ mounted' = TRUE
  /\ lastOp' = "mount"
  /\ \E rnd \in Draws :
       IF renderer = "html"
         THEN onMounted_html(rnd)
         ELSE \* the host: each way it can fail
              \E linkFails, noContext, vertFails, fragFails, nullThrows
                   \in BOOLEAN :
                onMounted_webgl(~noContext, rnd, ~vertFails, ~fragFails,
                                ~linkFails, nullThrows)
  /\ UNCHANGED <<fragment, renderer, winW, winH, unmounted, lastPointer, burst,
                 darkMode>>

\* the window is resized; a "resize" event reaches the listener if attached
Resize ==
  /\ \E sz \in WindowSizes :
       /\ winW' = sz[1]
       /\ winH' = sz[2]
       /\ IF resizeListener /\ canvasValue = "element"
            THEN /\ IF renderer = "html"
                      THEN \E rnd \in Draws :
                             resizeCanvas_html(rnd, sz[1], sz[2])
                      ELSE resizeCanvas_webgl(sz[1], sz[2])
                 /\ painted' = Cleared(painted)
                 /\ faults' = faults
            ELSE \* no listener, or canvas.value.width throws on null
                 /\ faults' = IF resizeListener
                                THEN faults \cup {"resizeCanvas"} ELSE faults
                 /\ UNCHANGED <<width, height, circles, painted>>
  /\ lastOp' = "resize"
  /\ burst' = 0
  /\ UNCHANGED <<fragment, renderer, mounted, unmounted, gl, mouse, resizeListener,
                 mouseListener, unmountHook, frames, nextFrameId,
                 animationFrameId, program, programUsed, drawn, errors, ticks,
                 lastPointer, darkMode>>

\* function onMouseMove(event), the same in both files:
\*   mouse.x = event.clientX; mouse.y = event.clientY
onMouseMove(event) == [x |-> Px(event[1]), y |-> Px(event[2])]

\* the pointer moves; a "mousemove" event reaches the listener if attached
MouseMove ==
  /\ \E p \in PointerPositions :
       IF mouseListener
         THEN /\ mouse' = onMouseMove(p)
              /\ lastPointer' = << [x |-> Px(p[1]), y |-> Px(p[2])] >>
              /\ burst' = IF lastOp = "mousemove" /\ burst >= 1 THEN 2 ELSE 1
         ELSE /\ UNCHANGED <<mouse, lastPointer>>
              /\ burst' = 0
  /\ lastOp' = "mousemove"
  /\ UNCHANGED <<fragment, renderer, winW, winH, mounted, unmounted, gl, width, height,
                 circles, resizeListener, mouseListener, unmountHook, frames,
                 nextFrameId, animationFrameId, program, programUsed, drawn,
                 errors, ticks, darkMode, painted, faults>>

\* the browser runs a pending animation-frame callback
Frame ==
  /\ ticks < MaxTicks
  /\ \E id \in frames :
       IF renderer = "html"
         THEN animate(id)
         ELSE /\ render(circles, mouse, width, height, frames \ {id})
              /\ UNCHANGED <<width, height, mouse, resizeListener,
                             mouseListener, animationFrameId, program, errors>>
  /\ lastOp' = "frame"
  /\ burst' = IF lastOp = "mousemove" THEN burst ELSE 0
  /\ UNCHANGED <<fragment, renderer, winW, winH, mounted, unmounted, gl, unmountHook,
                 lastPointer, darkMode, faults>>

\* the component is unmounted: Vue runs the onUnmounted callback, if one
\* was registered
Unmount ==
  /\ mounted
  /\ unmounted' = TRUE
  /\ IF unmountHook
       THEN IF renderer = "html" THEN onUnmounted_html ELSE onUnmounted_webgl
       ELSE UNCHANGED <<resizeListener, mouseListener, frames>>
  /\ lastOp' = "unmount"
  /\ burst' = 0
  /\ UNCHANGED <<fragment, renderer, winW, winH, mounted, gl, width, height, mouse,
                 circles, unmountHook, nextFrameId, animationFrameId, program,
                 programUsed, drawn, errors, ticks, lastPointer, darkMode,
                 painted, faults>>

\* the theme changes: $q.dark.isActive flips; no callback of the component
\* runs
ToggleDark ==
  /\ darkMode' = ~darkMode
  /\ UNCHANGED <<fragment, renderer, winW, winH, mounted, unmounted, gl, width, height,
                 mouse, circles, resizeListener, mouseListener, unmountHook,
                 frames, nextFrameId, animationFrameId, program, programUsed,
                 drawn, errors, ticks, lastOp, lastPointer, burst, painted,
                 faults>>

Next == Mount \/ Resize \/ MouseMove \/ Frame \/ Unmount \/ ToggleDark

Spec == Init /\ [][Next]_vars

----------------------------------------------------------------------------
(* The fragment shader as a function of its inputs *)

\* where the circles of a shaded scene sit, and the sample points
ShaderPositions == {<<0, 0>>, <<2, 0>>}
SamplePoints == {<<0, 0>>, <<1, 0>>}

\* the scenes of n = 0 .. 6 circles, slot i with circleColors[i], radius 2
ShaderScenes ==
  UNION { [1 .. n -> ShaderPositions] : n \in 0 .. NumSlots }

\* the quotients exp() is applied to in these scenes, other than 0
ExpArguments == {<<1, 2>>, <<4, 2>>}

\* the values exp() can take there: 1.0 at most, 0 where it underflows, and
\* no larger further away
ExpTables ==
  { t \in [ExpArguments -> 0 .. ExpOne] : t[<<4, 2>>] <= t[<<1, 2>>] }

ShaderInit ==
  /\ Setup
  /\ renderer = "webgl"
  /\ <<winW, winH>> = <<6, 4>>
  /\ \E pos \in ShaderScenes, st \in SamplePoints, t \in ExpTables,
        z \in 0 .. ExpOne :
       fragment =
         [circles |-> [i \in DOMAIN pos |->
                        Circle(pos[i][1], pos[i][2], 2, circleColors[i],
                               0, 0, FALSE)],
          st |-> st,
          e |-> [exp |-> t, div0 |-> z],
          out |-> << >>]

\* render() sets the uniforms from the circles and draws: the shader runs
\* at the sample point
Shade ==
  /\ fragment.out = << >>
  /\ fragment' =
       [fragment EXCEPT
          !.out = << main(renderFrame(fragment.circles, darkMode),
                          fragment.st, fragment.e) >>]
  /\ UNCHANGED <<renderer, winW, winH, mounted, unmounted, gl, width, height,
                 mouse, circles, resizeListener, mouseListener, unmountHook,
                 frames, nextFrameId, animationFrameId, program, programUsed,
                 drawn, errors, ticks, lastOp, lastPointer, burst, darkMode,
                 painted, faults>>

ShaderNext == Shade

ShaderSpec == ShaderInit /\ [][ShaderNext]_vars

----------------------------------------------------------------------------
(* Sanity of the model *)

\* the interactive circle of a scene
Interactive(cs) == cs[CHOOSE i \in DOMAIN cs : cs[i].interactive]

\* the ambient circles of a scene, as slots
Ambient(cs) == {i \in DOMAIN cs : ~cs[i].interactive}

TypeOK ==
  /\ renderer \in {"html", "webgl"}
  /\ <<winW, winH>> \in WindowSizes
  /\ mounted \in BOOLEAN /\ unmounted \in BOOLEAN
  /\ gl \in {"unset", "ok", "null"}
  /\ width \in Nat /\ height \in Nat
  /\ mouse.x \in Int /\ mouse.y \in Int
  /\ Len(circles) \in Nat
  /\ resizeListener \in BOOLEAN /\ mouseListener \in BOOLEAN
  /\ unmountHook \in BOOLEAN
  /\ frames \subseteq 1 .. nextFrameId - 1
  /\ animationFrameId \in 0 .. nextFrameId - 1
  /\ program \in {"none", "linked", "unlinked"}
  /\ programUsed \in BOOLEAN /\ drawn \in BOOLEAN
  /\ ticks \in 0 .. MaxTicks
  /\ burst \in 0 .. 2
  /\ Len(lastPointer) <= 1
  /\ darkMode \in BOOLEAN
  /\ painted.blur \in {0, 40, 80}
  /\ painted.u_darkMode \in {-1, 0, 1}
  /\ faults \subseteq {"onMounted", "resizeCanvas"}

\* the next pointer-follow step divides without remainder
ExactArithmetic ==
  (ticks < MaxTicks /\ circles # << >>) =>
     /\ (mouse.x - Interactive(circles).x) % 10 = 0
     /\ (mouse.y - Interactive(circles).y) % 10 = 0

----------------------------------------------------------------------------
(* The claims *)

\* the scene was built: onMounted ran and had a rendering context
Initialized == mounted /\ gl = "ok"

\* c lies within [-radius, w+radius] x [-radius, h+radius]
WithinWrapBounds(c, w, h) ==
  /\ -c.radius <= c.x /\ c.x <= Px(w) + c.radius
  /\ -c.radius <= c.y /\ c.y <= Px(h) + c.radius

\* C1 (wrap invariant): whenever a step is taken that runs a Simulation Step
\* (ticks grows), in either renderer and after any resizes and pointer moves,
\* every ambient circle then lies within [-radius, width+radius] x
\* [-radius, height+radius] for the current width and height and its own
\* radius.
C1_WrapInvariant ==
  [][ticks' > ticks =>
       \A i \in Ambient(circles') :
          WithinWrapBounds(circles'[i], width', height')]_vars

\* C1's case: in the webgl renderer, after a resize left a circle's radius
\* stale, a frame has teleported an ambient circle to the low wrap boundary
C1_Witness ==
  /\ renderer = "webgl"
  /\ lastOp = "frame"
  /\ \E i \in Ambient(circles) :
       /\ circles[i].x = -circles[i].radius
       /\ 5 * circles[i].radius # Px(width + height)

\* C2 (no mutation after teardown): once a component that started without
\* a diagnostic is unmounted, no step changes the Scene (circles) or the
\* Viewport (width, height, mouse).
C2_NoMutationAfterTeardown ==
  [][(unmounted /\ errors = << >>) =>
       UNCHANGED <<circles, width, height, mouse>>]_vars

\* C3 (shader build failure): a program that is not successfully linked is
\* never used, nothing is drawn with it and no frame callback is pending.
C3_NoRenderingWithoutLinkedProgram ==
  program = "unlinked" => ~programUsed /\ ~drawn /\ frames = {}

\* C4 (unsupported backend): when no WebGL context was obtained, exactly one
\* diagnostic was emitted and, whatever events follow, no listener is
\* attached, no scene is built, no frame is pending, nothing is rendered and
\* no simulation step has run.
C4_UnsupportedBackendStaysIdle ==
  gl = "null" =>
     /\ errors = << "WebGL not supported" >>
     /\ ~resizeListener /\ ~mouseListener
     /\ circles = << >>
     /\ frames = {}
     /\ ~programUsed /\ ~drawn
     /\ ticks = 0

\* C4's case: the context was refused, and the window was resized and the
\* component unmounted afterwards
C4_Witness == gl = "null" /\ unmounted /\ lastOp = "resize"

\* C5 (scene cardinality): in every state after initialization the scene has
\* exactly 6 circles, exactly one of them interactive.
C5_SceneCardinality ==
  Initialized =>
     /\ Len(circles) = 6
     /\ Cardinality({i \in DOMAIN circles : circles[i].interactive}) = 1

\* C5's case: the html renderer has just rebuilt the scene on a resize, after
\* frames had moved the previous one
C5_Witness ==
  /\ renderer = "html" /\ lastOp = "resize" /\ resizeListener
  /\ ticks >= 2
  /\ Len(circles) = 6

Abs(n) == IF n < 0 THEN -n ELSE n

\* the vector from the interactive circle of cs to the pointer m
ToPointer(cs, m) ==
  [x |-> m.x - Interactive(cs).x, y |-> m.y - Interactive(cs).y]

\* a step runs one Simulation Step on an existing scene
SimulationStep == ticks' > ticks /\ circles # << >>

\* the step multiplies the vector to the pointer by 0.9, so the distance too
ShrinksByTenth ==
  /\ 10 * ToPointer(circles', mouse').x = 9 * ToPointer(circles, mouse).x
  /\ 10 * ToPointer(circles', mouse').y = 9 * ToPointer(circles, mouse).y

\* the step brings the interactive circle strictly closer to the pointer
\* (no axis further, one axis closer)
StrictlyCloser ==
  LET d == ToPointer(circles, mouse)
      e == ToPointer(circles', mouse')
  IN  /\ Abs(e.x) <= Abs(d.x)
      /\ Abs(e.y) <= Abs(d.y)
      /\ Abs(e.x) + Abs(e.y) < Abs(d.x) + Abs(d.y)

\* C6 as stated (interactive convergence): every Simulation Step (the
\* pointer is fixed and no resize happens during it) multiplies the
\* interactive circle's distance to the pointer by 0.9 and strictly
\* decreases it.
C6_StrictDecreaseEveryStep ==
  [][SimulationStep => ShrinksByTenth /\ StrictlyCloser]_vars

\* C6 as amended: every Simulation Step multiplies the interactive circle's
\* distance to the pointer by 0.9; the distance strictly decreases when it is
\* not zero, and a circle that is on the pointer stays on it.
C6_ShrinksWhileApart ==
  [][SimulationStep =>
       /\ ShrinksByTenth
       /\ ToPointer(circles, mouse) # [x |-> 0, y |-> 0] => StrictlyCloser
       /\ ToPointer(circles, mouse) = [x |-> 0, y |-> 0] =>
            ToPointer(circles', mouse') = [x |-> 0, y |-> 0]]_vars

\* C6's case: the pointer was moved away from the interactive circle and
\* frames have brought the circle closer without reaching it
C6_Witness ==
  /\ lastOp = "frame"
  /\ ticks >= 3
  /\ lastPointer # << >>
  /\ ToPointer(circles, mouse).x # 0
  /\ ToPointer(circles, mouse).y # 0

\* C7 (teardown leaves nothing behind): after a component that started
\* without a diagnostic is unmounted, however often the teardown ran and
\* whether or not a frame had fired, no frame callback is pending and no
\* listener is attached.
C7_NothingPendingAfterTeardown ==
  (unmounted /\ errors = << >>) =>
     frames = {} /\ ~resizeListener /\ ~mouseListener

\* C8 (radius consistency, html renderer): in every state after
\* initialization each ambient circle's radius is (width+height)*0.2 and the
\* interactive circle's radius is (width+height)*0.1, for the current width
\* and height.
C8_RadiusConsistency ==
  (renderer = "html" /\ Initialized) =>
     \A i \in DOMAIN circles :
        IF circles[i].interactive
          THEN 10 * circles[i].radius = Px(width + height)
          ELSE 5 * circles[i].radius = Px(width + height)

\* C8's case: the html renderer handled a resize while running, and its
\* circles carry the radius of the larger window
C8_Witness ==
  /\ renderer = "html" /\ lastOp = "resize" /\ resizeListener
  /\ ticks >= 1
  /\ width = 6 /\ height = 4
  /\ circles[1].radius = Px(2)

\* the palette of the renderer
Palette == IF renderer = "html" THEN colors ELSE circleColors

\* C9 (palette/slot stability): after every scene creation, whatever the
\* random draws, the scene is 5 non-interactive circles followed by 1
\* interactive circle, and the circle at slot i carries palette entry i.
C9_PaletteSlotStability ==
  Initialized =>
     /\ DOMAIN circles = 1 .. 6
     /\ \A i \in DOMAIN circles :
          /\ circles[i].interactive = (i = 6)
          /\ circles[i].color = Palette[i]

\* C9's case: a scene rebuilt on a resize, from draws that differ between
\* its circles
C9_Witness ==
  /\ lastOp = "resize" /\ resizeListener /\ renderer = "html"
  /\ Len(circles) = 6
  /\ circles[1].vx # circles[2].vx
  /\ circles[2].vx # circles[3].vx

\* C10 (pointer currency): once a pointer move was delivered, every
\* Simulation Step moves the interactive circle by a tenth of the way to the
\* pointer position delivered last before the step, on each axis.
C10_PointerCurrency ==
  [][(SimulationStep /\ lastPointer # << >>) =>
       /\ 10 * (Interactive(circles').x - Interactive(circles).x)
            = lastPointer[1].x - Interactive(circles).x
       /\ 10 * (Interactive(circles').y - Interactive(circles).y)
            = lastPointer[1].y - Interactive(circles).y]_vars

\* C10's case: a frame ran right after two or more pointer moves in a row,
\* the last of them away from the centre the pointer had at scene creation
C10_Witness ==
  /\ lastOp = "frame" /\ burst = 2
  /\ lastPointer # << Centre(width, height) >>
  /\ Interactive(circles) # InteractiveCircle(Palette, width, height)

\* a step renders a frame (the first one is rendered by onMounted)
RendersFrame == ticks' > ticks

C14_ResizeNeverFaults ==
  /\ "resizeCanvas" \notin faults
  /\ (lastOp = "resize" /\ resizeListener) =>
        /\ width = winW /\ height = winH
        /\ Len(circles) = 6

\* d is c after one Simulation Step on one axis: p, v the coordinate and the
\* velocity of an ambient circle, q the new coordinate
AmbientAxisStep(p, v, radius, limit, q) ==
  IF p + v - radius > limit THEN q = -radius
  ELSE IF p + v + radius < 0 THEN q = limit + radius
  ELSE q = p + v

\* d is c after exactly one Simulation Step
OneStep(c, d, m, w, h) ==
  /\ d = [c EXCEPT !.x = d.x, !.y = d.y]
  /\ IF c.interactive
       THEN /\ 10 * (d.x - c.x) = m.x - c.x
            /\ 10 * (d.y - c.y) = m.y - c.y
       ELSE /\ AmbientAxisStep(c.x, c.vx, c.radius, Px(w), d.x)
            /\ AmbientAxisStep(c.y, c.vy, c.radius, Px(h), d.y)

\* C15 (one step, then render, per tick): every frame advances every circle
\* of the scene by exactly one Simulation Step and renders each circle once,
\* at its position after the step.
C15_StepThenRenderOncePerTick ==
  [][RendersFrame =>
       /\ circles # << >> =>
            /\ DOMAIN circles' = DOMAIN circles
            /\ \A i \in DOMAIN circles :
                 OneStep(circles[i], circles'[i], mouse, width, height)
       /\ DOMAIN painted'.disks = DOMAIN circles'
       /\ \A i \in DOMAIN circles' :
            /\ painted'.disks[i].x = circles'[i].x
            /\ painted'.disks[i].y = circles'[i].y
            /\ painted'.disks[i].radius = circles'[i].radius
            /\ painted'.disks[i].color = circles'[i].color]_vars

\* C15's case: a frame callback moved an ambient circle, wrapped another and
\* rendered them
C15_Witness ==
  /\ lastOp = "frame" /\ ticks >= 2
  /\ Len(painted.disks) = 6
  /\ \E i, j \in Ambient(circles) :
       /\ painted.disks[i].x = -circles[i].radius
       /\ painted.disks[j].x > 0 /\ circles[j].vx # 0

\* the frame loop runs: onMounted ran to its end, the component is mounted
Running == unmountHook /\ ~unmounted

\* C16 (single frame loop): in every Running state, after any ticks, resizes
\* and pointer moves, exactly one frame callback is pending.
C16_SingleFrameLoop == Running => Cardinality(frames) = 1

\* C16's case: the html renderer rebuilt its scene on a resize while its
\* frame loop was running
C16_Witness ==
  /\ renderer = "html" /\ Running /\ lastOp = "resize"
  /\ ticks >= 2
  /\ frames = {animationFrameId}

\* a "resize" event reaches the attached listener of the webgl renderer
\* (a theme change is the only other step that can follow one with lastOp
\* still "resize")
WebglResize ==
  /\ renderer = "webgl" /\ resizeListener
  /\ lastOp' = "resize" /\ darkMode' = darkMode

\* C17 (Field Renderer resize frame condition): a resize of the webgl
\* renderer leaves the circles (position, radius, velocity, color, interactive
\* flag, order) and the pointer unchanged; only width and height may change.
C17_WebglResizeKeepsScene ==
  [][WebglResize => circles' = circles /\ mouse' = mouse]_vars

\* C17's case: the webgl renderer was resized after some frames to a size its
\* radii were not computed for
C17_Witness ==
  /\ renderer = "webgl" /\ lastOp = "resize" /\ resizeListener
  /\ ticks >= 2
  /\ width = winW /\ height = winH
  /\ \E i \in Ambient(circles) : 5 * circles[i].radius # Px(width + height)

\* C18 (step and pointer-move frame conditions): a Simulation Step changes
\* only the positions of the circles and leaves their other fields, their
\* order, width, height and the pointer unchanged; a pointer move leaves the
\* circles, width and height unchanged.
C18_StepAndPointerFrameConditions ==
  [][/\ SimulationStep =>
          /\ DOMAIN circles' = DOMAIN circles
          /\ \A i \in DOMAIN circles :
               circles'[i] = [circles[i] EXCEPT !.x = circles'[i].x,
                                                !.y = circles'[i].y]
          /\ width' = width /\ height' = height /\ mouse' = mouse
     /\ lastOp' = "mousemove" =>
          circles' = circles /\ width' = width /\ height' = height]_vars

\* C18's case: after some steps that moved the circles, two pointer moves
\* changed the pointer
C18_Witness ==
  /\ lastOp = "mousemove" /\ burst = 2 /\ ticks >= 2
  /\ mouse # Centre(width, height)
  /\ \E i \in Ambient(circles) : circles[i].vx # 0

\* b lies between a and m
Between(a, b, m) == (a <= b /\ b <= m) \/ (m <= b /\ b <= a)

\* the point p lies in the viewport [0, w] x [0, h]
InViewport(p, w, h) ==
  /\ 0 <= p.x /\ p.x <= Px(w)
  /\ 0 <= p.y /\ p.y <= Px(h)

\* C19 (the interactive circle only follows the pointer): after each
\* Simulation Step each coordinate of the interactive circle lies between its
\* previous value and the pointer coordinate; the scene is created with the
\* interactive circle inside the viewport, and a step with the pointer inside
\* the viewport keeps it inside.
C19_InteractiveNeverOvershoots ==
  [][/\ SimulationStep =>
          /\ Between(Interactive(circles).x, Interactive(circles').x, mouse.x)
          /\ Between(Interactive(circles).y, Interactive(circles').y, mouse.y)
          /\ (/\ InViewport(Interactive(circles), width, height)
              /\ InViewport(mouse, width, height))
               => InViewport(Interactive(circles'), width', height')
     /\ (lastOp' = "mount" /\ circles' # << >>) =>
          InViewport(Interactive(circles'), width', height')]_vars

\* C19's case: a step of the webgl renderer moved the interactive circle from
\* the centre towards a pointer inside the viewport, without reaching it
C19_Witness ==
  /\ renderer = "webgl" /\ lastOp = "frame" /\ ticks >= 2
  /\ InViewport(mouse, width, height)
  /\ InViewport(Interactive(circles), width, height)
  /\ Interactive(circles).x # mouse.x
  /\ Interactive(circles).x # Centre(width, height).x

\* the sums of the loop taken over the first k circles of the scene
\* themselves
RECURSIVE OverCircles(_, _, _, _)
OverCircles(cs, st, e, k) ==
  IF k = 0 THEN [fieldSum |-> 0, weightedColorSum |-> <<0, 0, 0>>]
  ELSE LET rest == OverCircles(cs, st, e, k - 1)
           val == gaussian(e, distSquared(st, cs[k]), cs[k].radius)
       IN  [fieldSum |-> rest.fieldSum + val,
            weightedColorSum |->
              [j \in 1 .. 3 |->
                 rest.weightedColorSum[j] + cs[k].color[j] * val]]

\* C12 (padding neutrality): for a scene of n circles the slots past n hold
\* the dummies, the loop evaluates the slots 0 .. n-1 only (no dummy, so no
\* zero sigma), and fieldSum, weightedColorSum and the resolved colour are
\* those computed over the n circles alone.
C12_PaddingNeutrality ==
  fragment.out # << >> =>
    LET out == fragment.out[1]
        n == Len(fragment.circles)
        u == renderFrame(fragment.circles, darkMode)
        alone == OverCircles(fragment.circles, fragment.st, fragment.e, n)
    IN  /\ \A i \in n + 1 .. NumSlots :
             u.disks[i].radius = 0 /\ u.disks[i].color = <<0, 0, 0>>
        /\ out.evaluated = 0 .. n - 1
        /\ out.fieldSum = alone.fieldSum
        /\ out.weightedColorSum = alone.weightedColorSum
        /\ \A k \in 1 .. 3 :
             IF alone.fieldSum > 0
               THEN out.finalCirclesColor.num[k] * alone.fieldSum =
                      alone.weightedColorSum[k] * out.finalCirclesColor.den
               ELSE out.finalCirclesColor.num[k] = 0
        /\ out.gl_FragColor.blob = out.finalCirclesColor
        /\ out.gl_FragColor.intensity = alone.fieldSum

\* C12's case: the shader ran on a scene of 2 circles at the sample point
\* (0, 0), where the 4 dummies sit, with a division by zero that would not
\* give 0
C12_Witness ==
  /\ fragment.out # << >>
  /\ Len(fragment.circles) = 2
  /\ fragment.st = <<0, 0>>
  /\ fragment.e.div0 > 0
  /\ fragment.out[1].fieldSum > 0

\* the scene has exactly two circles, of equal radius and at equal distance
\* from the sample point, and the shader ran
TwoEquidistant ==
  /\ fragment.out # << >>
  /\ Len(fragment.circles) = 2
  /\ fragment.circles[1].radius = fragment.circles[2].radius
  /\ distSquared(fragment.st, fragment.circles[1]) =
       distSquared(fragment.st, fragment.circles[2])

\* the kernel value v both circles of TwoEquidistant have
KernelValue ==
  gaussian(fragment.e, distSquared(fragment.st, fragment.circles[1]),
           fragment.circles[1].radius)

\* the resolved colour is (C1 + C2) / 2
IsMeanColor ==
  \A k \in 1 .. 3 :
    2 * fragment.out[1].finalCirclesColor.num[k] =
      (fragment.circles[1].color[k] + fragment.circles[2].color[k])
        * fragment.out[1].finalCirclesColor.den

\* C13 as stated (field weighting correctness): for two circles of equal
\* radius at equal distance from the sample point, the resolved colour is
\* (C1 + C2) / 2 for every kernel value v.
C13_MeanForEveryValue == TwoEquidistant => IsMeanColor

\* C13 (field weighting correctness), amended: for two circles of equal
\* radius at equal distance from the sample point, the resolved colour is
\* (C1 + C2) / 2 for every kernel value v > 0; for v = 0 fieldSum is 0 and
\* the resolved colour is (0, 0, 0).
C13_MeanForPositiveValue ==
  TwoEquidistant =>
    IF KernelValue > 0
      THEN IsMeanColor
      ELSE /\ fragment.out[1].fieldSum = 0
           /\ fragment.out[1].finalCirclesColor.num = <<0, 0, 0>>

\* C13's case: two circles at equal distance with a kernel value strictly
\* between 0 and 1.0
C13_Witness ==
  /\ TwoEquidistant
  /\ KernelValue > 0 /\ KernelValue < ExpOne
  /\ fragment.circles[1].x # fragment.circles[2].x

====
